---- MODULE Spec2Model ----
(***************************************************************************)
(* Request handling of the music-catalog backend (src/server.js,           *)
(* src/middleware/auth.js, src/models/Song.js).                            *)
(*                                                                         *)
(* Every request is one suspendable task.  The synchronous code between    *)
(* two awaits is one atomic action; an awaited external call (Identity     *)
(* Verifier, Object Store, Catalog Store) is "issued" by the action that   *)
(* reaches it and "settled" by a later action, so that other requests and  *)
(* the startup cleanup interleave at every await.                          *)
(*                                                                         *)
(* Scope of the inputs: requests whose bodies the body parsers accept      *)
(* (multipart parts within the size limit and under the declared field     *)
(* names).                                                                 *)
(***************************************************************************)
EXTENDS Integers, Sequences, FiniteSets, TLC

\* ------------------------------------------------------------------ bounds
MaxReq == 2          \* number of requests served in one behaviour
MaxNow == 1          \* largest value of the millisecond clock

\* --------------------------------------------------------------- constants
AdminEmail == "admin@teluguyash.com"
UserEmail  == "user@example.com"
NoUser     == "<no user>"

Absent == "<absent>"                  \* a form field that was not sent
TestTitle  == "Test Song"
TestArtist == "Test Artist"
\* The title and artist fields a client sends with a form.
Form(t, a) == [title |-> t, artist |-> a]
Forms ==
    { Form(Absent, Absent), Form("", TestArtist), Form(TestTitle, ""),
      Form(TestTitle, TestArtist), Form("T2", TestArtist),
      Form("T2", Absent), Form(Absent, TestArtist) }

\* Authorization headers, as sequences of words.
NoHeader == << >>
Headers ==
    { NoHeader,
      <<"Basic ", "tA">>,
      <<"Bearer ", "tX">>,
      <<"Bearer ", "tU">>,
      <<"Bearer ", "tA">> }

\* Record identifiers: positive numbers are well-formed identifiers the
\* Catalog Store generated, GhostId is well formed but was never generated,
\* BadId is a string that is no identifier at all.
GhostId == 0
BadId   == -1

\* URLs returned by the Object Store, as the sequence of their path
\* segments, each segment the sequence of its dot-separated parts:
\* .../upload/<folder>/<name>.<ext>.  A blob is known to the Object Store
\* by its public identifier <folder>/<name>.
NoUrl == << >>
PublicId(folder, n) == <<folder, n>>
Url(folder, n) ==
    << <<"upload">>, <<folder>>, <<n, IF folder = "songs" THEN "mp3" ELSE "jpg">> >>

NoFile == << >>
NoDoc  == [title |-> "", artist |-> "", file |-> NoUrl, cover |-> NoUrl, uploadDate |-> 0]

Reqs == 1 .. MaxReq

VARIABLES
    req,      \* req[r]: the state of request r
    songs,    \* Catalog Store: identifier -> Song Record
    nextId,   \* next identifier the Catalog Store generates
    blobs,    \* Object Store: the public identifiers that exist
    nextBlob, \* next name the Object Store generates
    uploads,  \* local staging directory: the paths that exist
    now,      \* Date.now()
    boot      \* position of the startup chain (connect, cleanup)

vars == <<req, songs, nextId, blobs, nextBlob, uploads, now, boot>>

\* ------------------------------------------------------------ pure helpers
\* Mutant: only undefined is rejected, the empty string passes.
Truthy_DefinedOnly(s) == s # Absent

\* JavaScript truthiness of a form field: undefined and '' are falsy.
Truthy(s) == s # Absent /\ s # ""

\* authHeader.startsWith('Bearer ')
StartsWithBearer(h) == Len(h) >= 1 /\ h[1] = "Bearer "

\* The words of s up to the next 'Bearer ' separator.
RECURSIVE UpToBearer(_)
UpToBearer(s) ==
    IF s = << >> \/ Head(s) = "Bearer " THEN << >>
    ELSE <<Head(s)>> \o UpToBearer(Tail(s))

\* authHeader.split('Bearer ')[1]: the piece after the first 'Bearer '
\* separator, undefined when the header holds no separator.
Undefined == <<"<undefined>">>

RECURSIVE TokenOf(_)
TokenOf(h) ==
    IF h = << >> THEN Undefined
    ELSE IF Head(h) = "Bearer " THEN UpToBearer(Tail(h))
    ELSE TokenOf(Tail(h))

\* admin.auth().verifyIdToken(token): the decoded email, or NoUser when the
\* verifier rejects the token.
VerifyIdToken(tok) ==
    IF tok = <<"tA">> THEN AdminEmail
    ELSE IF tok = <<"tU">> THEN UserEmail
    ELSE NoUser

IsAdmin(email) == email = AdminEmail

\* Mutant: the scheme of the header is not checked.
AuthHeaderOk_AnyScheme(h) == h # NoHeader

\* The first guard of authMiddleware: a header is present and uses the
\* Bearer scheme.
AuthHeaderOk(h) == h # NoHeader /\ StartsWithBearer(h)

\* songSchema: title, artist, file and cover are required strings.
Validate(doc) ==
    /\ doc.title # "" /\ doc.title # Absent
    /\ doc.artist # "" /\ doc.artist # Absent
    /\ doc.file # NoUrl
    /\ doc.cover # NoUrl

\* url.split('/').slice(-2)
LastTwo(url) == IF Len(url) <= 2 THEN url ELSE SubSeq(url, Len(url) - 1, Len(url))

\* segments.join('/').split('.')[0]: the segments up to the first dot.
RECURSIVE UpToDot(_)
UpToDot(segs) ==
    IF segs = << >> THEN << >>
    ELSE IF Len(Head(segs)) > 1 THEN <<Head(segs)[1]>>
    ELSE <<Head(segs)[1]>> \o UpToDot(Tail(segs))

\* song.file.split('/').slice(-2).join('/').split('.')[0]
DeletePublicId(url) == UpToDot(LastTwo(url))

\* Mutant: the extension of the file name is not stripped.
UpdatePublicId_KeepExtension(url) == <<"covers">> \o url[Len(url)]

\* `covers/${urlParts[urlParts.length - 1].split('.')[0]}`
UpdatePublicId(url) == <<"covers", url[Len(url)][1]>>

\* multer.diskStorage filename: Date.now() + '-' + file.originalname
StagedPath(stamp, originalname) == <<stamp, originalname>>

Min(a, b) == IF a <= b THEN a ELSE b

\* The values Date.now() can return at its next read.
Clock == now .. Min(now + 1, MaxNow)

\* fs.unlinkSync(p): the possible outcomes on directory fs.  A path that
\* does not exist always throws; an existing path is removed, or the call
\* throws (an I/O error) and the file stays.
Unlink(fs, p) ==
    IF p \in fs
    THEN { [ok |-> TRUE, fs |-> fs \ {p}], [ok |-> FALSE, fs |-> fs] }
    ELSE { [ok |-> FALSE, fs |-> fs] }

\* ---------------------------------------------------------------- requests
Idle ==
    [ pc |-> "idle", route |-> "none", header |-> NoHeader, user |-> NoUser,
      id |-> GhostId, title |-> Absent, artist |-> Absent,
      songFile |-> NoFile, coverFile |-> NoFile,
      status |-> 0, msg |-> "",
      doc |-> NoDoc, modified |-> {},
      songUrl |-> NoUrl, coverUrl |-> NoUrl,
      pidSong |-> NoUrl, pidCover |-> NoUrl,
      dSong |-> "none", dCover |-> "none",
      result |-> << >>,
      \* history of the request, read by the properties only
      verifyCalls |-> 0, osCalls |-> 0, dbCalls |-> 0, upOk |-> 0,
      dbWrites |-> 0, created |-> 0, found |-> FALSE, dbFault |-> FALSE, osFault |-> FALSE,
      validated |-> FALSE, err |-> "", after |-> {} ]

\* res.status(code).json(...)
Respond(rq, code, msg) == [rq EXCEPT !.pc = "done", !.status = code, !.msg = msg]

\* An exception thrown inside a catch block rejects the promise of the async
\* handler; nothing awaits it, so nothing answers the request.
Escape(rq, e) == [rq EXCEPT !.pc = "unhandled", !.err = IF rq.err = "" THEN e ELSE rq.err]

Connected == boot \in {"cleanupFind", "cleanupDelete", "ready"}
Alive == boot # "exited"

\* The catalog before the server starts: one ordinary record and one record
\* that matches the test fixture of cleanupTestSongs, with their blobs.
InitSongs ==
    (1 :> [title |-> "T1", artist |-> "A1", file |-> Url("songs", 1),
           cover |-> Url("covers", 2), uploadDate |-> 0])
    @@
    (2 :> [title |-> TestTitle, artist |-> TestArtist, file |-> Url("songs", 3),
           cover |-> Url("covers", 4), uploadDate |-> 0])

Init ==
    /\ req = [r \in Reqs |-> Idle]
    /\ songs = InitSongs
    /\ nextId = 3
    /\ blobs = { PublicId("songs", 1), PublicId("covers", 2),
                 PublicId("songs", 3), PublicId("covers", 4) }
    /\ nextBlob = 5
    /\ uploads = {}
    /\ now = 0
    /\ boot = "connecting"

\* The identifiers a client can put in the URL.
ReqIds == {BadId, GhostId} \cup (1 .. (nextId - 1))

Routes == {"list", "upload", "delete", "update"}

\* ------------------------------------------------------------ Auth Gate
\* The records whose upload request has been answered with success (kept
\* with a request when it arrives, for the properties).
Answered == { req[x].created : x \in { y \in Reqs : req[y].status = 200 /\ req[y].created # 0 } }

\* authMiddleware up to its first await.
Receive(r) ==
    /\ Alive
    /\ req[r].pc = "idle"
    /\ IF r = 1 THEN TRUE ELSE req[r - 1].pc # "idle"
    /\ \E route \in Routes, h \in Headers :
         LET rq == [req[r] EXCEPT !.route = route, !.header = h,
                                  !.after = Answered] IN
         req' = [req EXCEPT ![r] =
                   IF AuthHeaderOk(h)
                   THEN [rq EXCEPT !.pc = "verify", !.verifyCalls = @ + 1]
                   ELSE Respond(rq, 401, "No token provided")]
    /\ UNCHANGED <<songs, nextId, blobs, nextBlob, uploads, now, boot>>

\* The synchronous start of the delete handler.
DeleteStart(rq, id) ==
    IF ~IsAdmin(rq.user)
    THEN Respond([rq EXCEPT !.id = id], 403, "Only admin can delete songs")
    ELSE [rq EXCEPT !.id = id, !.pc = "findById", !.dbCalls = @ + 1]

\* The synchronous start of the list handler.
ListStart(rq) == [rq EXCEPT !.pc = "find", !.dbCalls = @ + 1]

\* verifyIdToken settles; on success next() runs the rest of the route.
VerifyDone(r) ==
    /\ Alive
    /\ req[r].pc = "verify"
    /\ LET rq    == req[r]
           email == VerifyIdToken(TokenOf(rq.header))
           in    == [rq EXCEPT !.user = email]
       IN  IF email = NoUser
           THEN req' = [req EXCEPT ![r] = Respond(rq, 401, "Invalid token")]
           ELSE CASE rq.route = "list" ->
                       req' = [req EXCEPT ![r] = ListStart(in)]
                  [] rq.route = "delete" ->
                       \E id \in ReqIds : req' = [req EXCEPT ![r] = DeleteStart(in, id)]
                  [] OTHER ->
                       req' = [req EXCEPT ![r] = [in EXCEPT !.pc = "multer"]]
    /\ UNCHANGED <<songs, nextId, blobs, nextBlob, uploads, now, boot>>

\* ----------------------------------------------------- Catalog API: list
\* The orders Song.find().sort({uploadDate: -1}) can return: every
\* arrangement of the records with non-increasing uploadDate.
RECURSIVE Arrangements(_)
Arrangements(S) ==
    IF S = {} THEN { << >> }
    ELSE UNION { { <<i>> \o t : t \in Arrangements(S \ {i}) } : i \in S }

\* Mutant: the sort direction is reversed (oldest first).
SortedByUploadDateDesc_Ascending(s) ==
    \A i, j \in 1 .. Len(s) : i < j => songs[s[i]].uploadDate <= songs[s[j]].uploadDate

SortedByUploadDateDesc(s) ==
    \A i, j \in 1 .. Len(s) : i < j => songs[s[i]].uploadDate >= songs[s[j]].uploadDate

FindSorted ==
    { [k \in 1 .. Len(s) |-> [id |-> s[k], song |-> songs[s[k]]]] :
        s \in { a \in Arrangements(DOMAIN songs) : SortedByUploadDateDesc(a) } }

FindDone(r) ==
    /\ Alive
    /\ req[r].pc = "find"
    /\ \/ /\ Connected
          /\ \E res \in FindSorted :
               req' = [req EXCEPT ![r] = [Respond(req[r], 200, "") EXCEPT !.result = res]]
       \/ req' = [req EXCEPT ![r] =
                    Respond([req[r] EXCEPT !.dbFault = TRUE, !.err = "db"],
                            500, "Error fetching songs")]
    /\ UNCHANGED <<songs, nextId, blobs, nextBlob, uploads, now, boot>>

\* --------------------------------------------------- Upload Orchestrator
\* error.message || fallback
ErrorMessage(e, fallback) == IF e # "" THEN e ELSE fallback

\* Mutant: the payload is validated before the admin check.
UploadCheck_ValidateFirst(email, songFile, coverFile, title, artist) ==
    IF songFile = NoFile \/ coverFile = NoFile
    THEN [code |-> 400, msg |-> "Both song file and cover image are required"]
    ELSE IF ~Truthy(title) \/ ~Truthy(artist)
    THEN [code |-> 400, msg |-> "Title and artist are required"]
    ELSE IF ~IsAdmin(email)
    THEN [code |-> 403, msg |-> "Only admin can upload songs"]
    ELSE [code |-> 0, msg |-> ""]

\* The admin check and the validation of the upload handler, in the order
\* of the code: the status of the early return, or 0 when the request goes on.
UploadCheck(email, songFile, coverFile, title, artist) ==
    IF ~IsAdmin(email)
    THEN [code |-> 403, msg |-> "Only admin can upload songs"]
    ELSE IF songFile = NoFile \/ coverFile = NoFile
    THEN [code |-> 400, msg |-> "Both song file and cover image are required"]
    ELSE IF ~Truthy(title) \/ ~Truthy(artist)
    THEN [code |-> 400, msg |-> "Title and artist are required"]
    ELSE [code |-> 0, msg |-> ""]

\* The original file names clients send for the two parts.
SongName  == "song.mp3"
CoverName == "cover.jpg"

\* The handler after multer, up to its first await.  The form fields are
\* drawn when the handler reads them.
UploadStart(rq, form) ==
    LET chk == UploadCheck(rq.user, rq.songFile, rq.coverFile, form.title, form.artist)
        rq1 == [rq EXCEPT !.title = form.title, !.artist = form.artist]
    IN  IF chk.code # 0
        THEN Respond(rq1, chk.code, chk.msg)
        ELSE [rq1 EXCEPT !.pc = "upSong", !.validated = TRUE, !.osCalls = @ + 1]

\* The checks that end the upload handler before it reads title and artist.
ReadsForm(rq) == IsAdmin(rq.user) /\ rq.songFile # NoFile /\ rq.coverFile # NoFile

\* upload.fields([songFile, coverImage]) stages the parts that were sent,
\* then the handler runs up to its first await.
MulterUpload(r) ==
    /\ Alive
    /\ req[r].pc = "multer"
    /\ req[r].route = "upload"
    /\ \E hasSong, hasCover \in BOOLEAN, t \in Clock :
         LET sf == IF hasSong THEN StagedPath(t, SongName) ELSE NoFile
             cf == IF hasCover THEN StagedPath(t, CoverName) ELSE NoFile
             rq == [req[r] EXCEPT !.songFile = sf, !.coverFile = cf]
         IN  /\ uploads' = uploads \cup ({sf, cf} \ {NoFile})
             /\ now' = IF hasSong \/ hasCover THEN t ELSE now
             /\ \E form \in (IF ReadsForm(rq) THEN Forms ELSE {Form(Absent, Absent)}) :
                  req' = [req EXCEPT ![r] = UploadStart(rq, form)]
    /\ UNCHANGED <<songs, nextId, blobs, nextBlob, boot>>

\* The catch block of the upload handler, entered with error e while the
\* staging directory is fs: the possible results, each with the directory
\* it leaves.
UploadCatch(rq, fs, e) ==
    LET rq1   == [rq EXCEPT !.err = IF @ = "" THEN e ELSE @]
        first == IF rq.songFile # NoFile THEN Unlink(fs, rq.songFile)
                 ELSE { [ok |-> TRUE, fs |-> fs] }
        second(fs1) == IF rq.coverFile # NoFile THEN Unlink(fs1, rq.coverFile)
                       ELSE { [ok |-> TRUE, fs |-> fs1] }
    IN  UNION {
          IF ~a.ok
          THEN { [rq |-> Escape(rq1, "unlink"), fs |-> a.fs] }
          ELSE { IF b.ok
                 THEN [rq |-> Respond(rq1, 500, ErrorMessage(e, "Failed to upload song")),
                       fs |-> b.fs]
                 ELSE [rq |-> Escape(rq1, "unlink"), fs |-> b.fs]
                 : b \in second(a.fs) }
          : a \in first }

\* Mutant: a rejected upload is not noticed and the expected URL is used.
UploadSettled_IgnoreRejection(ok, url) == [thrown |-> FALSE, url |-> url]

\* An awaited cloudinary.uploader.upload settles: it throws, or it yields
\* the URL of the new blob.
UploadSettled(ok, url) == [thrown |-> ~ok, url |-> IF ok THEN url ELSE NoUrl]

UpSongDone(r) ==
    /\ Alive
    /\ req[r].pc = "upSong"
    /\ \E ok \in BOOLEAN :
         LET rq  == req[r]
             res == UploadSettled(ok, Url("songs", nextBlob))
         IN  /\ blobs' = IF ok THEN blobs \cup {PublicId("songs", nextBlob)} ELSE blobs
             /\ nextBlob' = IF ok THEN nextBlob + 1 ELSE nextBlob
             /\ IF res.thrown
                THEN \E out \in UploadCatch([rq EXCEPT !.osFault = TRUE], uploads, "upSong") :
                        /\ req' = [req EXCEPT ![r] = out.rq]
                        /\ uploads' = out.fs
                ELSE /\ req' = [req EXCEPT ![r] =
                                  [rq EXCEPT !.songUrl = res.url, !.pc = "upCover",
                                             !.upOk = IF ok THEN @ + 1 ELSE @,
                                             !.osCalls = @ + 1]]
                     /\ UNCHANGED uploads
    /\ UNCHANGED <<songs, nextId, now, boot>>

\* new Song({...}) with uploadDate: new Date()
NewSong(rq, coverUrl, date) ==
    [title |-> rq.title, artist |-> rq.artist, file |-> rq.songUrl,
     cover |-> coverUrl, uploadDate |-> date]

UpCoverDone(r) ==
    /\ Alive
    /\ req[r].pc = "upCover"
    /\ \E ok \in BOOLEAN, date \in Clock :
         LET rq  == req[r]
             res == UploadSettled(ok, Url("covers", nextBlob))
         IN  /\ blobs' = IF ok THEN blobs \cup {PublicId("covers", nextBlob)} ELSE blobs
             /\ nextBlob' = IF ok THEN nextBlob + 1 ELSE nextBlob
             /\ IF res.thrown
                THEN /\ \E out \in UploadCatch([rq EXCEPT !.osFault = TRUE], uploads, "upCover") :
                          /\ req' = [req EXCEPT ![r] = out.rq]
                          /\ uploads' = out.fs
                     /\ UNCHANGED now
                ELSE /\ req' = [req EXCEPT ![r] =
                                  [rq EXCEPT !.coverUrl = res.url,
                                             !.doc = NewSong(rq, res.url, date),
                                             !.pc = "save",
                                             !.upOk = IF ok THEN @ + 1 ELSE @,
                                             !.dbCalls = @ + 1]]
                     /\ now' = date
                     /\ UNCHANGED uploads
    /\ UNCHANGED <<songs, nextId, boot>>

\* The success path after song.save(): both temp files are unlinked, then
\* the 200 response is sent; a throwing unlink enters the catch block.
UploadCleanup(rq, fs) ==
    UNION {
      IF ~a.ok
      THEN UploadCatch(rq, a.fs, "unlink")
      ELSE UNION {
             IF ~b.ok
             THEN UploadCatch(rq, b.fs, "unlink")
             ELSE { [rq |-> Respond(rq, 200, "Upload successful"), fs |-> b.fs] }
             : b \in Unlink(a.fs, rq.coverFile) }
      : a \in Unlink(fs, rq.songFile) }

SaveDone(r) ==
    /\ Alive
    /\ req[r].pc = "save"
    /\ LET rq == req[r] IN
       \/ /\ ~Validate(rq.doc)
          /\ \E out \in UploadCatch(rq, uploads, "validation") :
               /\ req' = [req EXCEPT ![r] = out.rq]
               /\ uploads' = out.fs
          /\ UNCHANGED <<songs, nextId>>
       \/ /\ Validate(rq.doc)
          /\ Connected
          /\ songs' = songs @@ (nextId :> rq.doc)
          /\ nextId' = nextId + 1
          /\ \E out \in UploadCleanup([rq EXCEPT !.created = nextId, !.dbWrites = @ + 1],
                                        uploads) :
               /\ req' = [req EXCEPT ![r] = out.rq]
               /\ uploads' = out.fs
       \/ /\ Validate(rq.doc)
          /\ \E out \in UploadCatch([rq EXCEPT !.dbFault = TRUE], uploads, "save") :
               /\ req' = [req EXCEPT ![r] = out.rq]
               /\ uploads' = out.fs
          /\ UNCHANGED <<songs, nextId>>
    /\ UNCHANGED <<blobs, nextBlob, now, boot>>

\* --------------------------------------------------- Catalog API: delete
\* Song.findById(id): a string that is no identifier makes the query throw
\* (a cast error) whatever the store holds.
Castable(id) == id # BadId

\* State of Promise.all over the two destroy calls: it rejects at the first
\* rejection and resolves once both calls have resolved.
PromiseAll(dSong, dCover) ==
    IF dSong = "fail" \/ dCover = "fail" THEN "rejected"
    ELSE IF dSong = "ok" /\ dCover = "ok" THEN "resolved"
    ELSE "pending"

\* Mutant: a rejected blob deletion aborts the delete (fail-closed).
AfterDestroy_FailClosed(rq, settled) ==
    IF settled = "rejected"
    THEN Respond([rq EXCEPT !.err = "destroy"], 500, "Failed to delete song")
    ELSE [rq EXCEPT !.pc = "findDel", !.dbCalls = @ + 1]

\* What the delete handler does once the Promise.all has settled: the inner
\* try/catch logs a rejection and the handler goes on to findByIdAndDelete.
AfterDestroy(rq, settled) ==
    [rq EXCEPT !.pc = "findDel", !.dbCalls = @ + 1]

FindByIdDelete(r) ==
    /\ Alive
    /\ req[r].pc = "findById"
    /\ req[r].route = "delete"
    /\ LET rq == req[r] IN
       \/ /\ ~Castable(rq.id)
          /\ req' = [req EXCEPT ![r] =
                       Respond([rq EXCEPT !.err = "cast"], 500,
                               ErrorMessage("cast", "Failed to delete song"))]
       \/ /\ Castable(rq.id)
          /\ req' = [req EXCEPT ![r] =
                       Respond([rq EXCEPT !.dbFault = TRUE, !.err = "db"], 500,
                               ErrorMessage("db", "Failed to delete song"))]
       \/ /\ Castable(rq.id)
          /\ Connected
          /\ req' = [req EXCEPT ![r] =
                       IF rq.id \notin DOMAIN songs
                       THEN Respond(rq, 404, "Song not found")
                       ELSE [rq EXCEPT !.doc = songs[rq.id], !.found = TRUE,
                                       !.pidSong = DeletePublicId(songs[rq.id].file),
                                       !.pidCover = DeletePublicId(songs[rq.id].cover),
                                       !.dSong = "pending", !.dCover = "pending",
                                       !.pc = "destroy", !.osCalls = @ + 2]]
    /\ UNCHANGED <<songs, nextId, blobs, nextBlob, uploads, now, boot>>

\* One of the two concurrent cloudinary.uploader.destroy calls settles.  The
\* handler resumes when this settles the Promise.all; a call still pending
\* then keeps running.
DestroyDone(r) ==
    /\ Alive
    /\ \E which \in {"song", "cover"}, ok \in BOOLEAN :
         LET rq   == req[r]
             out  == IF ok THEN "ok" ELSE "fail"
             rq1  == IF which = "song"
                     THEN [rq EXCEPT !.dSong = out, !.osFault = @ \/ ~ok]
                     ELSE [rq EXCEPT !.dCover = out, !.osFault = @ \/ ~ok]
             pid  == IF which = "song" THEN rq.pidSong ELSE rq.pidCover
             was  == PromiseAll(rq.dSong, rq.dCover)
             is   == PromiseAll(rq1.dSong, rq1.dCover)
         IN  /\ IF which = "song" THEN rq.dSong = "pending" ELSE rq.dCover = "pending"
             /\ blobs' = IF ok THEN blobs \ {pid} ELSE blobs
             /\ req' = [req EXCEPT ![r] =
                          IF rq.pc = "destroy" /\ was = "pending" /\ is # "pending"
                          THEN AfterDestroy(rq1, is)
                          ELSE rq1]
    /\ UNCHANGED <<songs, nextId, nextBlob, uploads, now, boot>>

Without(f, id) == [i \in (DOMAIN f) \ {id} |-> f[i]]

FindDelDone(r) ==
    /\ Alive
    /\ req[r].pc = "findDel"
    /\ LET rq == req[r] IN
       \/ /\ Connected
          /\ songs' = Without(songs, rq.id)
          /\ req' = [req EXCEPT ![r] =
                       Respond([rq EXCEPT !.dbWrites = @ + 1], 200,
                               "Song deleted successfully")]
       \/ /\ req' = [req EXCEPT ![r] =
                       Respond([rq EXCEPT !.dbFault = TRUE, !.err = "db"], 500,
                               ErrorMessage("db", "Failed to delete song"))]
          /\ UNCHANGED songs
    /\ UNCHANGED <<nextId, blobs, nextBlob, uploads, now, boot>>

\* --------------------------------------------------- Catalog API: update
\* if (req.body.x) song.x = req.body.x
Override(old, new) == IF Truthy(new) THEN new ELSE old

\* The paths Mongoose marks modified: those whose value changed.
Modified(old, new) == { f \in DOMAIN old : old[f] # new[f] }

\* Mutant: save() writes the whole loaded document over the stored record.
SaveUpdate_Replace(stored, doc, modified) == doc

\* song.save() on a loaded document writes its modified paths into the
\* stored record.
SaveUpdate(stored, doc, modified) ==
    [f \in DOMAIN stored |-> IF f \in modified THEN doc[f] ELSE stored[f]]

\* Mutant: the cover failure is logged and the update goes on to save.
CoverFailure_Continue(rq) == [rq EXCEPT !.pc = "updSave", !.dbCalls = @ + 1]

\* The inner catch of the cover replacement: the update ends here.
CoverFailure(rq) == Respond(rq, 500, "Failed to update cover image")

\* upload.single('coverImage') stages the cover if one was sent, then the
\* handler runs up to its first await.
MulterUpdate(r) ==
    /\ Alive
    /\ req[r].pc = "multer"
    /\ req[r].route = "update"
    /\ \E hasCover \in BOOLEAN, t \in Clock, id \in ReqIds :
         LET cf == IF hasCover THEN StagedPath(t, CoverName) ELSE NoFile
             rq == [req[r] EXCEPT !.coverFile = cf, !.id = id]
         IN  /\ uploads' = uploads \cup ({cf} \ {NoFile})
             /\ now' = IF hasCover THEN t ELSE now
             /\ req' = [req EXCEPT ![r] =
                          IF ~IsAdmin(rq.user)
                          THEN Respond(rq, 403, "Only admin can edit songs")
                          ELSE [rq EXCEPT !.pc = "findById", !.dbCalls = @ + 1]]
    /\ UNCHANGED <<songs, nextId, blobs, nextBlob, boot>>

\* The handler from the loaded document to its next await.
UpdateLoaded(rq, stored, form) ==
    LET doc == [stored EXCEPT !.title = Override(@, form.title),
                              !.artist = Override(@, form.artist)]
        rq1 == [rq EXCEPT !.title = form.title, !.artist = form.artist, !.found = TRUE,
                          !.doc = doc, !.modified = Modified(stored, doc)]
    IN  IF rq.coverFile # NoFile
        THEN [rq1 EXCEPT !.pidCover = UpdatePublicId(stored.cover),
                         !.pc = "updDestroy", !.osCalls = @ + 1]
        ELSE [rq1 EXCEPT !.pc = "updSave", !.dbCalls = @ + 1]

FindByIdUpdate(r) ==
    /\ Alive
    /\ req[r].pc = "findById"
    /\ req[r].route = "update"
    /\ LET rq == req[r] IN
       \/ /\ ~Castable(rq.id)
          /\ req' = [req EXCEPT ![r] =
                       Respond([rq EXCEPT !.err = "cast"], 500,
                               ErrorMessage("cast", "Failed to update song"))]
       \/ /\ Castable(rq.id)
          /\ req' = [req EXCEPT ![r] =
                       Respond([rq EXCEPT !.dbFault = TRUE, !.err = "db"], 500,
                               ErrorMessage("db", "Failed to update song"))]
       \/ /\ Castable(rq.id)
          /\ Connected
          /\ IF rq.id \notin DOMAIN songs
             THEN req' = [req EXCEPT ![r] = Respond(rq, 404, "Song not found")]
             ELSE \E form \in Forms :
                    req' = [req EXCEPT ![r] = UpdateLoaded(rq, songs[rq.id], form)]
    /\ UNCHANGED <<songs, nextId, blobs, nextBlob, uploads, now, boot>>

\* destroy(publicId) of the old cover settles.
UpdDestroyDone(r) ==
    /\ Alive
    /\ req[r].pc = "updDestroy"
    /\ \E ok \in BOOLEAN :
         LET rq == req[r] IN
         /\ blobs' = IF ok THEN blobs \ {rq.pidCover} ELSE blobs
         /\ req' = [req EXCEPT ![r] =
                      IF ok
                      THEN [rq EXCEPT !.pc = "updUpload", !.osCalls = @ + 1]
                      ELSE CoverFailure([rq EXCEPT !.osFault = TRUE, !.err = "destroy"])]
    /\ UNCHANGED <<songs, nextId, nextBlob, uploads, now, boot>>

\* The upload of the new cover settles; on success the document takes the
\* new URL and the staged file is unlinked.
UpdUploadDone(r) ==
    /\ Alive
    /\ req[r].pc = "updUpload"
    /\ \E ok \in BOOLEAN :
         LET rq  == req[r]
             res == UploadSettled(ok, Url("covers", nextBlob))
             doc == [rq.doc EXCEPT !.cover = res.url]
             rq1 == [rq EXCEPT !.coverUrl = res.url, !.doc = doc,
                               !.modified = @ \cup {"cover"},
                               !.upOk = IF ok THEN @ + 1 ELSE @]
         IN  /\ blobs' = IF ok THEN blobs \cup {PublicId("covers", nextBlob)} ELSE blobs
             /\ nextBlob' = IF ok THEN nextBlob + 1 ELSE nextBlob
             /\ IF res.thrown
                THEN /\ req' = [req EXCEPT ![r] =
                                  CoverFailure([rq EXCEPT !.osFault = TRUE, !.err = "upload"])]
                     /\ UNCHANGED uploads
                ELSE \E u \in Unlink(uploads, rq.coverFile) :
                       /\ uploads' = u.fs
                       /\ req' = [req EXCEPT ![r] =
                                    IF u.ok
                                    THEN [rq1 EXCEPT !.pc = "updSave", !.dbCalls = @ + 1]
                                    ELSE CoverFailure([rq1 EXCEPT !.err = "unlink"])]
    /\ UNCHANGED <<songs, nextId, now, boot>>

\* Mutant: a save whose record is gone inserts the document again.
SaveMissing_Upsert(store, id, doc) == [i \in DOMAIN store \cup {id} |-> IF i = id THEN doc ELSE store[i]]

\* song.save() of a loaded document whose record is gone: the update it
\* sends matches nothing and is no upsert, the store stays as it is.
SaveMissing(store, id, doc) == store

\* song.save() of the update settles.  A document whose record is gone is
\* never written back: save() throws, or, with nothing modified, may also
\* resolve without a write.
UpdSaveDone(r) ==
    /\ Alive
    /\ req[r].pc = "updSave"
    /\ LET rq == req[r] IN
       \/ /\ Connected
          /\ Validate(rq.doc)
          /\ rq.id \in DOMAIN songs
          /\ songs' = [songs EXCEPT ![rq.id] = SaveUpdate(@, rq.doc, rq.modified)]
          /\ req' = [req EXCEPT ![r] = Respond([rq EXCEPT !.dbWrites = @ + 1], 200, "")]
       \/ /\ Connected
          /\ Validate(rq.doc)
          /\ rq.id \notin DOMAIN songs
          /\ \E code \in (IF rq.modified = {} THEN {200, 500} ELSE {500}) :
               req' = [req EXCEPT ![r] =
                         IF code = 200 THEN Respond(rq, 200, "")
                         ELSE Respond([rq EXCEPT !.err = "notfound"], 500,
                                      ErrorMessage("notfound", "Failed to update song"))]
          /\ songs' = SaveMissing(songs, rq.id, rq.doc)
       \/ /\ LET e == IF Validate(rq.doc) THEN "db" ELSE "validation" IN
             req' = [req EXCEPT ![r] =
                       Respond([rq EXCEPT !.dbFault = (e = "db"), !.err = e], 500,
                               ErrorMessage(e, "Failed to update song"))]
          /\ UNCHANGED songs
    /\ UNCHANGED <<nextId, blobs, nextBlob, uploads, now, boot>>

\* ------------------------------------------------------- startup cleanup
IsTestSong(s) == s.title = TestTitle /\ s.artist = TestArtist

\* mongoose.connect settles: then() starts cleanupTestSongs, catch() calls
\* process.exit(1).
Connect ==
    /\ boot = "connecting"
    /\ boot' \in {"cleanupFind", "exited"}
    /\ UNCHANGED <<req, songs, nextId, blobs, nextBlob, uploads, now>>

\* Song.find({title, artist}) of the cleanup settles.
CleanupFindDone ==
    /\ boot = "cleanupFind"
    /\ \/ boot' = IF \E i \in DOMAIN songs : IsTestSong(songs[i])
                  THEN "cleanupDelete" ELSE "ready"
       \/ boot' = "ready"
    /\ UNCHANGED <<req, songs, nextId, blobs, nextBlob, uploads, now>>

\* Song.deleteMany({title, artist}) of the cleanup settles.
CleanupDeleteDone ==
    /\ boot = "cleanupDelete"
    /\ boot' = "ready"
    /\ \/ songs' = [i \in { j \in DOMAIN songs : ~IsTestSong(songs[j]) } |-> songs[i]]
       \/ UNCHANGED songs
    /\ UNCHANGED <<req, nextId, blobs, nextBlob, uploads, now>>

\* ------------------------------------------------------------------ Next
Step(r) ==
    \/ Receive(r)
    \/ VerifyDone(r)
    \/ FindDone(r)
    \/ MulterUpload(r)
    \/ UpSongDone(r)
    \/ UpCoverDone(r)
    \/ SaveDone(r)
    \/ FindByIdDelete(r)
    \/ DestroyDone(r)
    \/ FindDelDone(r)
    \/ MulterUpdate(r)
    \/ FindByIdUpdate(r)
    \/ UpdDestroyDone(r)
    \/ UpdUploadDone(r)
    \/ UpdSaveDone(r)

Next ==
    \/ \E r \in Reqs : Step(r)
    \/ Connect
    \/ CleanupFindDone
    \/ CleanupDeleteDone

Spec == Init /\ [][Next]_vars

\* ================================================================ claims
Mutating == {"upload", "delete", "update"}

\* A header that is missing or does not use the Bearer scheme.
NoBearer(h) == h = NoHeader \/ Head(h) # "Bearer "

\* A header whose token the Identity Verifier rejects.
RejectedToken(h) == ~NoBearer(h) /\ VerifyIdToken(Tail(h)) = NoUser

\* A form field that carries a value.
Supplied(s) == s # Absent /\ s # ""

\* C1: on every protected route a request without a valid bearer token is
\* answered 401 and makes no Catalog Store or Object Store call; with a
\* missing header or a wrong scheme the Identity Verifier is never called.
C1_Unauthenticated401 ==
    \A r \in Reqs :
      LET rq == req[r] IN
      (rq.route \in Routes /\ (NoBearer(rq.header) \/ RejectedToken(rq.header))) =>
        /\ rq.pc \in {"verify", "done"}
        /\ rq.pc = "done" => rq.status = 401
        /\ rq.status \in {0, 401}
        /\ rq.osCalls = 0 /\ rq.dbCalls = 0 /\ rq.dbWrites = 0
        /\ rq.created = 0 /\ rq.upOk = 0
        /\ NoBearer(rq.header) => (rq.verifyCalls = 0 /\ rq.pc = "done")

C1_Witness ==
    /\ \E r \in Reqs : req[r].header = <<"Bearer ", "tX">> /\ req[r].status = 401
                       /\ req[r].verifyCalls = 1 /\ req[r].route = "upload"
    /\ \E r \in Reqs : req[r].header = <<"Basic ", "tA">> /\ req[r].status = 401
                       /\ req[r].route = "delete"

\* C2: on every mutating route an authenticated identity other than the
\* privileged one is answered 403 whatever else is wrong with the request
\* (missing files or fields, unknown id), with no Object Store call and no
\* Catalog Store call.
C2_Forbidden403First ==
    \A r \in Reqs :
      LET rq == req[r] IN
      (rq.route \in Mutating /\ rq.user # NoUser /\ rq.user # AdminEmail) =>
        /\ rq.pc \in {"multer", "done"}
        /\ rq.pc = "done" => rq.status = 403
        /\ rq.status \in {0, 403}
        /\ rq.osCalls = 0 /\ rq.dbCalls = 0 /\ rq.dbWrites = 0
        /\ rq.created = 0 /\ rq.upOk = 0

C2_Witness ==
    /\ \E r \in Reqs : /\ req[r].route = "upload" /\ req[r].user = UserEmail
                       /\ req[r].status = 403 /\ req[r].songFile = NoFile
                       /\ req[r].coverFile # NoFile
    /\ \E r \in Reqs : /\ req[r].route \in {"delete", "update"} /\ req[r].user = UserEmail
                       /\ req[r].status = 403 /\ req[r].id = GhostId

\* C3: an upload of the privileged identity that lacks a file part, or whose
\* title or artist is absent or empty, is answered 400 with no Object Store
\* call and no Catalog Store call.
C3_Invalid400 ==
    \A r \in Reqs :
      LET rq == req[r] IN
      ( /\ rq.route = "upload" /\ rq.user = AdminEmail
        /\ rq.pc \notin {"idle", "verify", "multer"}
        /\ \/ rq.songFile = NoFile \/ rq.coverFile = NoFile
           \/ ~Supplied(rq.title) \/ ~Supplied(rq.artist) ) =>
        /\ rq.pc = "done" /\ rq.status = 400
        /\ rq.osCalls = 0 /\ rq.dbCalls = 0 /\ rq.dbWrites = 0
        /\ rq.created = 0 /\ rq.upOk = 0

C3_Witness ==
    /\ \E r \in Reqs : /\ req[r].route = "upload" /\ req[r].user = AdminEmail
                       /\ req[r].status = 400 /\ req[r].songFile # NoFile
                       /\ req[r].coverFile # NoFile /\ req[r].artist = ""
    /\ \E r \in Reqs : /\ req[r].route = "upload" /\ req[r].user = AdminEmail
                       /\ req[r].status = 400 /\ req[r].coverFile = NoFile

\* C4: every record in the Catalog Store has a resolved audio URL and a
\* resolved cover URL, and a record an upload request inserted was inserted
\* after both remote uploads of that request succeeded.
C4_RecordsHaveBothUrls ==
    /\ \A i \in DOMAIN songs : songs[i].file # NoUrl /\ songs[i].cover # NoUrl
    /\ \A r \in Reqs : req[r].created # 0 =>
         /\ req[r].upOk = 2
         /\ req[r].songUrl # NoUrl /\ req[r].coverUrl # NoUrl

C4_Witness ==
    /\ \E r \in Reqs : req[r].created \in DOMAIN songs /\ req[r].created # 0
    /\ \E r \in Reqs : /\ req[r].route = "update" /\ req[r].status = 200
                       /\ req[r].coverFile # NoFile /\ req[r].dbWrites = 1
                       /\ req[r].id \in DOMAIN songs
                       /\ songs[req[r].id].cover = req[r].coverUrl

\* C5: a delete of the privileged identity that found its record and whose
\* Catalog Store calls succeeded is answered 200 and the record is gone,
\* whatever the two Object Store deletions did.
C5_DeleteFailOpen ==
    \A r \in Reqs :
      LET rq == req[r] IN
      (rq.route = "delete" /\ rq.found /\ ~rq.dbFault /\ rq.pc = "done") =>
        /\ rq.status = 200
        /\ rq.id \notin DOMAIN songs

C5_Witness ==
    \E r \in Reqs : /\ req[r].route = "delete" /\ req[r].status = 200
                    /\ req[r].dSong = "fail" /\ req[r].dCover = "fail"
                    /\ req[r].id \notin DOMAIN songs

\* C6: an update with a new cover whose old-cover deletion or new-cover
\* upload failed is answered 500 and has written nothing to the Catalog
\* Store, also when it carried a new title or artist.
C6_UpdateFailClosed ==
    \A r \in Reqs :
      LET rq == req[r] IN
      (rq.route = "update" /\ rq.found /\ rq.coverFile # NoFile /\ rq.osFault) =>
        /\ rq.pc = "done" /\ rq.status = 500
        /\ rq.dbWrites = 0

C6_Witness ==
    \E r \in Reqs : /\ req[r].route = "update" /\ req[r].status = 500
                    /\ req[r].err = "upload" /\ req[r].title = "T2"
                    /\ req[r].id \in DOMAIN songs
                    /\ songs[req[r].id].title = "T1"

\* C7 (as claimed): an upload that passed validation and then had a step
\* fail always ends with a 500 response that carries the message of the
\* error that triggered the failure.
C7_FailureAlwaysAnswered ==
    \A r \in Reqs :
      LET rq == req[r] IN
      (rq.route = "upload" /\ rq.validated /\ rq.err # "") =>
        /\ rq.pc = "done"
        /\ rq.status = 500
        /\ rq.msg = rq.err

\* C8: the save of a successful update changes, in the stored record, only
\* the fields the request supplied: title and artist only when a non-empty
\* value was sent, the cover URL only when a cover was sent, never the audio
\* URL or the upload date, and no other record.
UpdateSaves(r) ==
    /\ req[r].route = "update"
    /\ req[r].pc = "updSave"
    /\ req'[r].pc = "done"
    /\ req'[r].status = 200
    /\ req[r].id \in DOMAIN songs

C8_Frame(r) ==
    LET rq  == req[r]
        old == songs[rq.id]
        new == songs'[rq.id]
    IN  /\ DOMAIN songs' = DOMAIN songs
        /\ \A j \in DOMAIN songs : j # rq.id => songs'[j] = songs[j]
        /\ ~Supplied(rq.title) => new.title = old.title
        /\ ~Supplied(rq.artist) => new.artist = old.artist
        /\ rq.coverFile = NoFile => new.cover = old.cover
        /\ new.file = old.file
        /\ new.uploadDate = old.uploadDate

C8_PartialUpdate == [][\A r \in Reqs : UpdateSaves(r) => C8_Frame(r)]_vars

C8_Witness ==
    \E r \in Reqs : /\ req[r].route = "update" /\ req[r].status = 200
                    /\ req[r].title = "T2" /\ req[r].artist = Absent
                    /\ req[r].coverFile = NoFile /\ req[r].dbWrites = 1
                    /\ req[r].id \in DOMAIN songs
                    /\ songs[req[r].id].title = "T2"
                    /\ songs[req[r].id].artist = "A1"

\* C9 (as claimed): a delete of the privileged identity for an id that
\* matches no record, with the Catalog Store working, is answered 404 and
\* makes no Object Store call and no Catalog Store write.
C9_UnknownId404 ==
    \A r \in Reqs :
      LET rq == req[r] IN
      ( /\ rq.route = "delete" /\ rq.user = AdminEmail /\ rq.pc = "done"
        /\ ~rq.found /\ ~rq.dbFault ) =>
        /\ rq.status = 404
        /\ rq.osCalls = 0 /\ rq.dbWrites = 0

\* C10 (as claimed): once an upload of "Test Song" / "Test Artist" has been
\* answered with success, a list request that arrives afterwards and
\* succeeds, with no delete (and no update) request in between, returns a
\* record with that title and artist and with both URLs resolved.
C10_RoundTrip ==
    \A u, l \in Reqs :
      ( /\ req[u].route = "upload" /\ req[u].status = 200
        /\ req[u].title = TestTitle /\ req[u].artist = TestArtist
        /\ req[l].route = "list" /\ req[l].status = 200
        /\ req[u].created \in req[l].after
        /\ \A x \in Reqs : req[x].route \notin {"delete", "update"} ) =>
        \E k \in 1 .. Len(req[l].result) :
          /\ req[l].result[k].id = req[u].created
          /\ req[l].result[k].song.title = TestTitle
          /\ req[l].result[k].song.artist = TestArtist
          /\ req[l].result[k].song.file # NoUrl
          /\ req[l].result[k].song.cover # NoUrl

\* Two requests neither of which arrived after the other's upload had been
\* answered with success.
Overlap(a, b) ==
    /\ req[a].created \notin req[b].after
    /\ req[b].created \notin req[a].after

\* C11 (as claimed): two concurrent uploads of the privileged identity with
\* identical title and artist whose external calls all succeeded leave two
\* additional records in the Catalog Store, with distinct identifiers, each
\* holding the fields and URLs of its own request.
C11_DistinctRecords ==
    \A a, b \in Reqs :
      ( /\ a # b
        /\ req[a].route = "upload" /\ req[b].route = "upload"
        /\ req[a].status = 200 /\ req[b].status = 200
        /\ req[a].title = req[b].title /\ req[a].artist = req[b].artist
        /\ Overlap(a, b)
        /\ \A x \in Reqs : req[x].route \notin {"delete", "update"} ) =>
        /\ req[a].created # req[b].created
        /\ req[a].created \in DOMAIN songs
        /\ req[b].created \in DOMAIN songs
        /\ songs[req[a].created] = req[a].doc
        /\ songs[req[b].created] = req[b].doc

\* C12: a list request of any authenticated identity that succeeds returns
\* exactly the records the Catalog Store holds at that moment, each once and
\* with its stored fields, ordered by upload date descending; no step of a
\* list request changes the Catalog Store or the Object Store, and a list
\* request makes no Object Store call and no Catalog Store write.
ListAnswers(r) ==
    /\ req[r].route = "list"
    /\ req[r].pc = "find"
    /\ req'[r].pc = "done"
    /\ req'[r].status = 200

C12_Returned(r) ==
    LET res == req'[r].result IN
    /\ Len(res) = Cardinality(DOMAIN songs)
    /\ { res[k].id : k \in 1 .. Len(res) } = DOMAIN songs
    /\ \A k \in 1 .. Len(res) : res[k].song = songs[res[k].id]
    /\ \A i, j \in 1 .. Len(res) :
         i < j => res[i].song.uploadDate >= res[j].song.uploadDate

C12_ReadOnly(r) ==
    /\ songs' = songs /\ nextId' = nextId
    /\ blobs' = blobs /\ nextBlob' = nextBlob
    /\ req'[r].osCalls = 0 /\ req'[r].dbWrites = 0

C12_ListAll ==
    [][\A r \in Reqs :
         /\ ListAnswers(r) => C12_Returned(r)
         /\ (req'[r].route = "list" /\ req'[r] # req[r]) => C12_ReadOnly(r)]_vars

C12_Witness ==
    \E r \in Reqs : /\ req[r].route = "list" /\ req[r].status = 200
                    /\ req[r].user = UserEmail
                    /\ Len(req[r].result) = 3
                    /\ req[r].result[1].song.uploadDate > req[r].result[2].song.uploadDate
                    /\ req[r].result[1].id \notin DOMAIN InitSongs

\* C13: for every cover URL stored in the Catalog Store the identifier the
\* update handler derives equals the identifier the delete handler derives
\* (the last two path segments, extension stripped), and the identifier an
\* update passes to the Object Store delete is the one the delete handler
\* would derive from the cover URL of the record it loaded.
C13_SameConvention ==
    /\ \A i \in DOMAIN songs :
         UpdatePublicId(songs[i].cover) = DeletePublicId(songs[i].cover)
    /\ \A r \in Reqs :
         (req[r].route = "update" /\ req[r].pc = "updDestroy") =>
           req[r].pidCover = DeletePublicId(req[r].doc.cover)

C13_Witness ==
    \E d, u \in Reqs :
      /\ req[d].route = "delete" /\ req[d].pc = "destroy"
      /\ req[u].route = "update" /\ req[u].pc = "updDestroy"
      /\ req[d].id = req[u].id
      /\ req[u].pidCover = req[d].pidCover
      /\ req[u].pidCover \in blobs

\* C14 (as claimed): an upload that ends without a 200 response (a failure
\* response, or no response at all) has left no record in the Catalog Store;
\* a record an upload inserted goes with a 200 response of that upload.
C14_AllOrNothing ==
    \A r \in Reqs :
      LET rq == req[r] IN
      /\ (rq.route = "upload" /\ rq.pc \in {"done", "unhandled"} /\ rq.status # 200) =>
           rq.created \notin DOMAIN songs
      /\ (rq.route = "upload" /\ rq.created \in DOMAIN songs) =>
           (rq.pc = "done" /\ rq.status = 200)

\* C15 (as claimed): after an update that loaded its record and ended in a
\* failure response, with no other delete or update request around, the
\* cover URL stored in the record still names a blob of the Object Store.
C15_CoverSurvivesFailure ==
    \A r \in Reqs :
      LET rq == req[r] IN
      ( /\ rq.route = "update" /\ rq.pc = "done" /\ rq.status # 200
        /\ rq.found /\ rq.id \in DOMAIN songs
        /\ \A x \in Reqs \ {r} : req[x].route \notin {"delete", "update"} ) =>
        DeletePublicId(songs[rq.id].cover) \in blobs

\* C16 (as claimed): once an upload or update request has been answered,
\* with any status, none of the files staged for it is left in the staging
\* directory.
C16_NoStagedFileLeft ==
    \A r \in Reqs :
      LET rq == req[r] IN
      (rq.route \in {"upload", "update"} /\ rq.pc = "done") =>
        /\ rq.songFile # NoFile => rq.songFile \notin uploads
        /\ rq.coverFile # NoFile => rq.coverFile \notin uploads

\* C17: once a delete request has returned success its record is absent
\* from the Catalog Store in every later state, whatever a racing update of
\* the same id does: an update that loaded the record before the delete
\* never puts it back when it saves, and no later insert reuses the id.
C17_DeletedStaysDeleted ==
    /\ \A d \in Reqs :
         (req[d].route = "delete" /\ req[d].pc = "done" /\ req[d].status = 200) =>
           /\ req[d].id \notin DOMAIN songs
           /\ req[d].id < nextId
    /\ \A i \in DOMAIN songs : i < nextId

C17_Witness ==
    \E d, u \in Reqs :
      /\ req[d].route = "delete" /\ req[d].status = 200
      /\ req[u].route = "update" /\ req[u].id = req[d].id
      /\ req[u].found /\ req[u].modified # {}
      /\ req[u].pc = "done" /\ req[u].err = "notfound"
      /\ req[d].id \notin DOMAIN songs

====
